---- MODULE Spec2Model ----
(***************************************************************************)
(* A model of tenpy's symmetry algebra (tenpy/linalg/symmetries/groups.py) *)
(* and of its tensor decompositions (tenpy/linalg/matrix_operations.py).   *)
(* Python values are tagged records, Symmetry instances are records of     *)
(* their attributes, and the factor list of a ProductSymmetry is a list    *)
(* object on a heap, held by reference as in Python.                       *)
(***************************************************************************)
EXTENDS Integers, Sequences, FiniteSets

VARIABLES
    lists,    \* heap of Python list objects: lists[id] is the list's content
    syms,     \* the ProductSymmetry instances constructed so far, in order
    pc,       \* "idle": the caller is between calls; "returned": a call ended
    call,     \* the call that ended last: [op, self, a, b]
    res,      \* what that call returned (or raised)
    mul_log,  \* one entry per completed __mul__ that built a product
    backend_log  \* the backend primitives the call that ended last has called

vars == <<lists, syms, pc, call, res, mul_log, backend_log>>

(***************************************************************************)
(* Bounds of the model.                                                    *)
(***************************************************************************)
MaxInt == 2        \* sector labels and other ints are drawn from -MaxNeg..MaxInt
MaxNeg == 1
MaxFactors == 2    \* longest factor list handed to ProductSymmetry(...) in Spec
MaxProducts == 4   \* number of `*` combinations in SpecMul

\* the smallest modulus among the module's Z_N instances (z2_symmetry)
MinN == 2
\* moduli whose sectors 0..N-1 all lie within the drawn ints
MaxN == MaxInt + 1

(***************************************************************************)
(* Python values.                                                          *)
(***************************************************************************)
NoneV == [t |-> "NoneType"]
PyInt(n) == [t |-> "int", i |-> n]
PyBool(v) == [t |-> "bool", b |-> v]
PyStr(chars) == [t |-> "str", s |-> chars]
PyList(elems) == [t |-> "list", l |-> elems]
Raise(exc) == [t |-> "raise", e |-> exc]
NotImplemented == [t |-> "NotImplementedType"]

IsRaise(v) == v.t = "raise"

\* len(a): defined for sized values, TypeError otherwise
HasLen(a) == a.t \in {"list", "str"}
PyLen(a) == IF a.t = "list" THEN Len(a.l) ELSE Len(a.s)

\* the items that iterating over a yields (a str yields its 1-character strs)
PyIter(a) ==
    IF a.t = "list" THEN a.l
    ELSE [k \in 1..Len(a.s) |-> PyStr(<<a.s[k]>>)]

abs(n) == IF n < 0 THEN -n ELSE n

\* list(range(start, stop, step)) for step > 0
RECURSIVE range(_, _, _)
range(start, stop, step) ==
    IF start >= stop THEN <<>>
    ELSE <<start>> \o range(start + step, stop, step)

\* max(items, key=key) for a non-empty sequence: the first item of greatest key
RECURSIVE PyMax(_, _)
PyMax(items, key) ==
    IF Len(items) = 1 THEN items[1]
    ELSE LET rest == PyMax(Tail(items), key)
         IN  IF key[rest] > key[items[1]] THEN rest ELSE items[1]

\* math.prod over a sequence of ints
RECURSIVE prod(_)
prod(ns) == IF ns = <<>> THEN 1 ELSE ns[1] * prod(Tail(ns))

\* itertools.product(*seqs) as a sequence of sequences, rightmost index fastest
RECURSIVE product(_)
product(seqs) ==
    IF seqs = <<>> THEN << <<>> >>
    ELSE LET rest == product(Tail(seqs))
             RECURSIVE rows(_)
             rows(k) ==
                 IF k > Len(seqs[1]) THEN <<>>
                 ELSE [j \in 1..Len(rest) |-> <<seqs[1][k]>> \o rest[j]] \o rows(k + 1)
         IN  rows(1)

(***************************************************************************)
(* FusionStyle and BraidingStyle: the enum members and their values.       *)
(***************************************************************************)
FusionStyle == [single |-> 0, multiple_unique |-> 10, general |-> 20]
BraidingStyle == [bosonic |-> 0, fermionic |-> 10, anyonic |-> 20, no_braiding |-> 30]

(***************************************************************************)
(* Symmetry instances. Every instance carries the attributes set by        *)
(* Symmetry.__init__ and its class; qmod is set by QmodGroup only and factors (a         *)
(* reference to a list on the heap) by ProductSymmetry only; 0 stands for  *)
(* an attribute the class does not have.                                   *)
(***************************************************************************)
Symmetry(cls, fusion_style, braiding_style, trivial_sector, qmod, factors) ==
    [t |-> "Symmetry", cls |-> cls, fusion_style |-> fusion_style, braiding_style |-> braiding_style,
     trivial_sector |-> trivial_sector, qmod |-> qmod, factors |-> factors]

NoSymmetry == Symmetry("NoSymmetry", "single", "bosonic", NoneV, 0, 0)

Group(cls, fusion_style, trivial_sector, qmod) ==
    Symmetry(cls, fusion_style, "bosonic", trivial_sector, qmod, 0)

AbelianGroup(cls, trivial_sector, qmod) == Group(cls, "single", trivial_sector, qmod)

QmodGroup(cls, qmod) == AbelianGroup(cls, PyInt(0), qmod)

ZNSymmetry(N) == QmodGroup("ZNSymmetry", N)

U1Symmetry == QmodGroup("U1Symmetry", 1)

SU2Symmetry == Group("SU2Symmetry", "multiple_unique", PyInt(0), 0)

FermionParity == Symmetry("FermionParity", "single", "fermionic", PyInt(0), 0, 0)

IsSymmetry(x) == x.t = "Symmetry"
IsProductSymmetry(x) == IsSymmetry(x) /\ x.cls = "ProductSymmetry"

\* the module-level instances no_symmetry, z2_symmetry .. , u1_symmetry,
\* su2_symmetry, fermion_parity
Singletons ==
    {NoSymmetry, U1Symmetry, SU2Symmetry, FermionParity}
        \cup {ZNSymmetry(N) : N \in MinN..MaxN}

(***************************************************************************)
(* NoSymmetry                                                              *)
(***************************************************************************)
NoSymmetry_is_valid_sector(self, a) == PyBool(a = NoneV)
NoSymmetry_fusion_outcomes(self, a, b) == PyList(<<NoneV>>)
NoSymmetry_sector_dim(self, a) == PyInt(1)
NoSymmetry_dual_sector(self, a) == NoneV

(***************************************************************************)
(* AbelianGroup and QmodGroup (Z_N and U(1))                               *)
(***************************************************************************)
AbelianGroup_sector_dim(self, a) == PyInt(1)

QmodGroup_is_valid_sector(self, a) ==
    PyBool(a.t = "int" /\ (self.qmod = 1 \/ (0 <= a.i /\ a.i < self.qmod)))

\* the sum without the reduction modulo qmod
QmodGroup_fusion_outcomes_no_mod(self, a, b) == PyList(<<PyInt(a.i + b.i)>>)

QmodGroup_fusion_outcomes(self, a, b) == PyList(<<PyInt((a.i + b.i) % self.qmod)>>)

QmodGroup_dual_sector(self, a) == PyInt((-a.i) % self.qmod)

(***************************************************************************)
(* SU2Symmetry                                                             *)
(***************************************************************************)
SU2Symmetry_is_valid_sector(self, a) == PyBool(a.t = "int" /\ a.i >= 0)

\* a range that stops short of a + b
SU2Symmetry_fusion_outcomes_short(self, a, b) ==
    LET r == range(abs(a.i - b.i), a.i + b.i, 2)
    IN  PyList([k \in 1..Len(r) |-> PyInt(r[k])])

SU2Symmetry_fusion_outcomes(self, a, b) ==
    LET r == range(abs(a.i - b.i), a.i + b.i + 2, 2)
    IN  PyList([k \in 1..Len(r) |-> PyInt(r[k])])

SU2Symmetry_sector_dim(self, a) == PyInt(a.i + 1)

SU2Symmetry_dual_sector(self, a) == a

(***************************************************************************)
(* FermionParity                                                           *)
(***************************************************************************)
\* a in [0, 1]
FermionParity_is_valid_sector(self, a) == PyBool(a.t = "int" /\ a.i \in {0, 1})

\* the comparison the wrong way round
FermionParity_fusion_outcomes_equal(self, a, b) == PyInt(IF a = b THEN 1 ELSE 0)

\* int(a != b): a bare int, not a list
FermionParity_fusion_outcomes(self, a, b) == PyInt(IF a # b THEN 1 ELSE 0)

FermionParity_sector_dim(self, a) == PyInt(1)

FermionParity_dual_sector(self, a) == a

(***************************************************************************)
(* ProductSymmetry. The methods of the factors are reached by dynamic      *)
(* dispatch on the factor's class.                                         *)
(***************************************************************************)
RECURSIVE is_valid_sector(_, _)
RECURSIVE fusion_outcomes(_, _, _)
RECURSIVE sector_dim(_, _)
RECURSIVE dual_sector(_, _)

\* min(items, key=key): the first item of least key
RECURSIVE PyMin(_, _)
PyMin(items, key) ==
    IF Len(items) = 1 THEN items[1]
    ELSE LET rest == PyMin(Tail(items), key)
         IN  IF key[rest] < key[items[1]] THEN rest ELSE items[1]

\* the styles taken as the least of the factors' styles
ProductSymmetry_min(factors, heap) ==
    LET fs == heap[factors]
    IN  IF fs = <<>> THEN Raise("ValueError")
        ELSE Symmetry("ProductSymmetry",
                      PyMin([k \in 1..Len(fs) |-> fs[k].fusion_style], FusionStyle),
                      PyMin([k \in 1..Len(fs) |-> fs[k].braiding_style], BraidingStyle),
                      PyList([k \in 1..Len(fs) |-> fs[k].trivial_sector]),
                      0, factors)

\* ProductSymmetry(factors=factors): factors is the reference to the caller's
\* list, heap the list heap it lives on. max() of no styles raises ValueError.
ProductSymmetry(factors, heap) ==
    LET fs == heap[factors]
    IN  IF fs = <<>> THEN Raise("ValueError")
        ELSE Symmetry("ProductSymmetry",
                      PyMax([k \in 1..Len(fs) |-> fs[k].fusion_style], FusionStyle),
                      PyMax([k \in 1..Len(fs) |-> fs[k].braiding_style], BraidingStyle),
                      PyList([k \in 1..Len(fs) |-> fs[k].trivial_sector]),
                      0, factors)

\* zip(self.factors, a): pairs up to the shorter of the two
Zip(xs, ys) ==
    [k \in 1..(IF Len(xs) < Len(ys) THEN Len(xs) ELSE Len(ys)) |-> <<xs[k], ys[k]>>]

\* len(a) is taken outside the try block, so its TypeError escapes; a TypeError
\* raised while the factors are asked is caught and answered with False
ProductSymmetry_is_valid_sector(self, a) ==
    IF ~HasLen(a) THEN Raise("TypeError")
    ELSE IF PyLen(a) # Len(lists[self.factors]) THEN PyBool(FALSE)
    ELSE LET z == Zip(lists[self.factors], PyIter(a))
         IN  PyBool(\A k \in 1..Len(z) : is_valid_sector(z[k][1], z[k][2]) = PyBool(TRUE))

\* product(*all_outcomes) iterates over every factor's outcomes: an outcome that
\* is no sequence raises TypeError, as does a factor that raised itself
ProductSymmetry_fusion_outcomes(self, a, b) ==
    LET fs == lists[self.factors]
        n == Len(Zip(Zip(fs, a.l), b.l))
        all_outcomes == [k \in 1..n |-> fusion_outcomes(fs[k], a.l[k], b.l[k])]
    IN  IF \E k \in 1..n : IsRaise(all_outcomes[k])
        THEN all_outcomes[CHOOSE k \in 1..n : /\ IsRaise(all_outcomes[k])
                                              /\ \A j \in 1..(k-1) : ~IsRaise(all_outcomes[j])]
        ELSE IF \E k \in 1..n : all_outcomes[k].t # "list" THEN Raise("TypeError")
        ELSE LET combinations == product([k \in 1..n |-> all_outcomes[k].l])
             IN  PyList([j \in 1..Len(combinations) |-> PyList(combinations[j])])

ProductSymmetry_sector_dim(self, a) ==
    LET z == Zip(lists[self.factors], a.l)
    IN  PyInt(prod([k \in 1..Len(z) |-> sector_dim(z[k][1], z[k][2]).i]))

ProductSymmetry_dual_sector(self, a) ==
    LET z == Zip(lists[self.factors], a.l)
    IN  PyList([k \in 1..Len(z) |-> dual_sector(z[k][1], z[k][2])])

(***************************************************************************)
(* Method resolution: the class of self decides which body runs.           *)
(***************************************************************************)
IsQmodGroup(self) == self.cls \in {"ZNSymmetry", "U1Symmetry"}

is_valid_sector(self, a) ==
    CASE self.cls = "NoSymmetry" -> NoSymmetry_is_valid_sector(self, a)
      [] IsQmodGroup(self) -> QmodGroup_is_valid_sector(self, a)
      [] self.cls = "SU2Symmetry" -> SU2Symmetry_is_valid_sector(self, a)
      [] self.cls = "FermionParity" -> FermionParity_is_valid_sector(self, a)
      [] self.cls = "ProductSymmetry" -> ProductSymmetry_is_valid_sector(self, a)

fusion_outcomes(self, a, b) ==
    CASE self.cls = "NoSymmetry" -> NoSymmetry_fusion_outcomes(self, a, b)
      [] IsQmodGroup(self) -> QmodGroup_fusion_outcomes(self, a, b)
      [] self.cls = "SU2Symmetry" -> SU2Symmetry_fusion_outcomes(self, a, b)
      [] self.cls = "FermionParity" -> FermionParity_fusion_outcomes(self, a, b)
      [] self.cls = "ProductSymmetry" -> ProductSymmetry_fusion_outcomes(self, a, b)

sector_dim(self, a) ==
    CASE self.cls = "NoSymmetry" -> NoSymmetry_sector_dim(self, a)
      [] IsQmodGroup(self) -> AbelianGroup_sector_dim(self, a)
      [] self.cls = "SU2Symmetry" -> SU2Symmetry_sector_dim(self, a)
      [] self.cls = "FermionParity" -> FermionParity_sector_dim(self, a)
      [] self.cls = "ProductSymmetry" -> ProductSymmetry_sector_dim(self, a)

dual_sector(self, a) ==
    CASE self.cls = "NoSymmetry" -> NoSymmetry_dual_sector(self, a)
      [] IsQmodGroup(self) -> QmodGroup_dual_sector(self, a)
      [] self.cls = "SU2Symmetry" -> SU2Symmetry_dual_sector(self, a)
      [] self.cls = "FermionParity" -> FermionParity_dual_sector(self, a)
      [] self.cls = "ProductSymmetry" -> ProductSymmetry_dual_sector(self, a)

(***************************************************************************)
(* Symmetry.__mul__: self * other. `+` on lists builds a new list, so the  *)
(* operands' factor lists are read and never written. The result is the    *)
(* heap after the call and the value returned.                             *)
(***************************************************************************)
\* factors += ...: extends the list of a ProductSymmetry self in place
Symmetry_mul_in_place(self, other, heap) ==
    IF ~IsSymmetry(other) THEN [heap |-> heap, ret |-> NotImplemented]
    ELSE LET right == IF IsProductSymmetry(other) THEN heap[other.factors] ELSE <<other>>
         IN  IF IsProductSymmetry(self)
             THEN LET heap2 == [heap EXCEPT ![self.factors] = @ \o right]
                  IN  [heap |-> heap2, ret |-> ProductSymmetry(self.factors, heap2)]
             ELSE LET heap2 == Append(heap, <<self>> \o right)
                  IN  [heap |-> heap2, ret |-> ProductSymmetry(Len(heap2), heap2)]

Symmetry_mul(self, other, heap) ==
    IF ~IsSymmetry(other) THEN [heap |-> heap, ret |-> NotImplemented]
    ELSE LET left == IF IsProductSymmetry(self) THEN heap[self.factors] ELSE <<self>>
             right == IF IsProductSymmetry(other) THEN heap[other.factors] ELSE <<other>>
             heap2 == Append(heap, left \o right)
         IN  [heap |-> heap2, ret |-> ProductSymmetry(Len(heap2), heap2)]

(***************************************************************************)
(* The values the callers of the model hand in.                            *)
(***************************************************************************)
SeqsUpTo(S, n) == UNION {[1..k -> S] : k \in 0..n}

PyInts == {PyInt(n) : n \in (-MaxNeg)..MaxInt}
Atoms == {NoneV} \cup PyInts

\* the sectors of self among the drawn values: those is_valid_sector accepts
Sectors(self) ==
    LET candidates ==
            IF IsProductSymmetry(self)
            THEN {PyList(s) : s \in [1..Len(lists[self.factors]) -> Atoms]}
            ELSE Atoms
    IN  {a \in candidates : is_valid_sector(self, a) = PyBool(TRUE)}

\* values of other types and shapes, for is_valid_sector
Malformed ==
    Atoms \cup {PyStr(<<"a">>), PyStr(<<"0", "1">>)}
          \cup {PyList(s) : s \in SeqsUpTo({NoneV, PyInt(0), PyInt(MaxInt), PyStr(<<"a">>)},
                                           MaxFactors)}

\* the operands of `*` in SpecMul
MulOperands == {SU2Symmetry, FermionParity}

NoCall == [op |-> "none", self |-> NoneV, a |-> NoneV, b |-> NoneV]
Call(op, self, a, b) == [op |-> op, self |-> self, a |-> a, b |-> b]

(***************************************************************************)
(* The state after import: the module-level instances exist, no product    *)
(* has been built, no call has been made.                                  *)
(***************************************************************************)
Init ==
    /\ lists = <<>>
    /\ syms = <<>>
    /\ pc = "idle"
    /\ call = NoCall
    /\ res = NoneV
    /\ mul_log = <<>>
    /\ backend_log = <<>>

\* ProductSymmetry(factors=fs) on a fresh list fs of module instances
Construct(fs) ==
    /\ pc = "idle"
    /\ lists = <<>>
    /\ LET heap2 == Append(lists, fs)
           ret == ProductSymmetry(Len(heap2), heap2)
       IN  /\ lists' = heap2
           /\ syms' = IF IsRaise(ret) THEN syms ELSE Append(syms, ret)
           /\ res' = ret
    /\ call' = Call("ProductSymmetry", NoneV, NoneV, NoneV)
    /\ pc' = "returned"
    /\ UNCHANGED <<mul_log, backend_log>>

IsValidSector(self, a) ==
    /\ pc = "idle"
    /\ res' = is_valid_sector(self, a)
    /\ call' = Call("is_valid_sector", self, a, NoneV)
    /\ pc' = "returned"
    /\ UNCHANGED <<lists, syms, mul_log, backend_log>>

FusionOutcomes(self, a, b) ==
    /\ pc = "idle"
    /\ res' = fusion_outcomes(self, a, b)
    /\ call' = Call("fusion_outcomes", self, a, b)
    /\ pc' = "returned"
    /\ UNCHANGED <<lists, syms, mul_log, backend_log>>

SectorDim(self, a) ==
    /\ pc = "idle"
    /\ res' = sector_dim(self, a)
    /\ call' = Call("sector_dim", self, a, NoneV)
    /\ pc' = "returned"
    /\ UNCHANGED <<lists, syms, mul_log, backend_log>>

DualSector(self, a) ==
    /\ pc = "idle"
    /\ res' = dual_sector(self, a)
    /\ call' = Call("dual_sector", self, a, NoneV)
    /\ pc' = "returned"
    /\ UNCHANGED <<lists, syms, mul_log, backend_log>>

\* self * other
Mul(self, other) ==
    /\ pc = "idle"
    /\ Len(syms) < MaxProducts
    /\ LET r == Symmetry_mul(self, other, lists)
       IN  /\ lists' = r.heap
           /\ res' = r.ret
           /\ syms' = IF IsProductSymmetry(r.ret) THEN Append(syms, r.ret) ELSE syms
           /\ mul_log' = IF IsProductSymmetry(r.ret)
                         THEN Append(mul_log,
                                     [self |-> self, other |-> other, res |-> r.ret,
                                      self_factors |-> IF IsProductSymmetry(self)
                                                       THEN lists[self.factors] ELSE <<>>,
                                      other_factors |-> IF IsProductSymmetry(other)
                                                        THEN lists[other.factors] ELSE <<>>])
                         ELSE mul_log
    /\ call' = Call("__mul__", self, other, NoneV)
    /\ pc' = "returned"
    /\ UNCHANGED backend_log

\* the caller has looked at the result and goes on
Return ==
    /\ pc = "returned"
    /\ pc' = "idle"
    /\ call' = NoCall
    /\ res' = NoneV
    /\ backend_log' = <<>>
    /\ UNCHANGED <<lists, syms, mul_log>>

\* the symmetry the caller works with: the product once it is built (a method of
\* a module instance reads nothing a constructor call changes)
Callees == IF syms = <<>> THEN Singletons ELSE {syms[k] : k \in 1..Len(syms)}

Next ==
    \/ pc = "idle" /\ \E fs \in SeqsUpTo(Singletons, MaxFactors) : Construct(fs)
    \/ pc = "idle" /\ \E self \in Callees :
           \E a \in Sectors(self) \cup Malformed : IsValidSector(self, a)
    \/ pc = "idle" /\ \E self \in Callees :
           \E a, b \in Sectors(self) : FusionOutcomes(self, a, b)
    \/ pc = "idle" /\ \E self \in Callees : \E a \in Sectors(self) : SectorDim(self, a)
    \/ pc = "idle" /\ \E self \in Callees : \E a \in Sectors(self) : DualSector(self, a)
    \/ Return

Spec == Init /\ [][Next]_vars

NextMul ==
    \/ pc = "idle" /\ Len(syms) < MaxProducts
       /\ \E self \in MulOperands \cup {syms[k] : k \in 1..Len(syms)} :
           \E other \in MulOperands \cup {syms[k] : k \in 1..Len(syms)} \cup {PyInt(MaxInt)} :
               Mul(self, other)
    \/ Return

SpecMul == Init /\ [][NextMul]_vars

(***************************************************************************)
(* Properties of the symmetry algebra.                                     *)
(***************************************************************************)
Returned(op) == pc = "returned" /\ call.op = op

Elems(seq) == {seq[k] : k \in 1..Len(seq)}

\* C1: for every symmetry and every sector a that its is_valid_sector accepts,
\* dual_sector(dual_sector(a)) == a.
C1_DualInvolution ==
    Returned("dual_sector") => dual_sector(call.self, res) = call.a

\* C2: for every symmetry and every valid sector a, the trivial sector is an
\* element of the sequence fusion_outcomes(a, dual_sector(a)).
C2_FusionWithDualHasTrivial ==
    (Returned("fusion_outcomes") /\ call.b = dual_sector(call.self, call.a))
        => (res.t = "list" /\ call.self.trivial_sector \in Elems(res.l))

\* C3: for U1Symmetry and all integers a, b, negative ones included,
\* fusion_outcomes(a, b) == [a + b] and dual_sector(a) == -a.
C3_U1AddsAndNegates ==
    /\ (Returned("fusion_outcomes") /\ call.self.cls = "U1Symmetry")
           => res = PyList(<<PyInt(call.a.i + call.b.i)>>)
    /\ (Returned("dual_sector") /\ call.self.cls = "U1Symmetry")
           => res = PyInt(-call.a.i)

\* C4: for ZNSymmetry with modulus N and 0 <= a, b < N, fusion_outcomes(a, b) is
\* the one-element list [(a + b) mod N], dual_sector(a) is (N - a) mod N, and
\* both results lie in 0..N-1 again.
C4_ZNModular ==
    /\ (Returned("fusion_outcomes") /\ call.self.cls = "ZNSymmetry")
           => /\ res = PyList(<<PyInt((call.a.i + call.b.i) % call.self.qmod)>>)
              /\ res.l[1].i \in 0..(call.self.qmod - 1)
    /\ (Returned("dual_sector") /\ call.self.cls = "ZNSymmetry")
           => /\ res = PyInt((call.self.qmod - call.a.i) % call.self.qmod)
              /\ res.i \in 0..(call.self.qmod - 1)

\* a Z_3 fusion that wraps around: 2 and 2 fuse to [1]
C4_Witness ==
    /\ Returned("fusion_outcomes")
    /\ call.self = ZNSymmetry(3)
    /\ call.a = PyInt(2) /\ call.b = PyInt(2)
    /\ res = PyList(<<PyInt(1)>>)

\* C5: for SU2Symmetry and non-negative a, b, fusion_outcomes(a, b) is exactly
\* the strictly increasing list |a-b|, |a-b|+2, ..., a+b (ends included, no
\* duplicates, every element a valid sector), it is symmetric in a and b, and
\* sector_dim(a) == a + 1.
C5_SU2TriangleRange ==
    /\ (Returned("fusion_outcomes") /\ call.self.cls = "SU2Symmetry")
           => LET lo == IF call.a.i >= call.b.i THEN call.a.i - call.b.i
                        ELSE call.b.i - call.a.i
                  hi == call.a.i + call.b.i
              IN  /\ res.t = "list"
                  /\ Len(res.l) = (hi - lo) \div 2 + 1
                  /\ \A k \in 1..Len(res.l) : res.l[k] = PyInt(lo + 2 * (k - 1))
                  /\ res.l[Len(res.l)] = PyInt(hi)
                  /\ \A k \in 1..Len(res.l) :
                         is_valid_sector(call.self, res.l[k]) = PyBool(TRUE)
                  /\ res = fusion_outcomes(call.self, call.b, call.a)
    /\ (Returned("sector_dim") /\ call.self.cls = "SU2Symmetry")
           => res = PyInt(call.a.i + 1)

\* two spin-1 sectors fuse to [0, 2, 4]
C5_Witness ==
    /\ Returned("fusion_outcomes")
    /\ call.self = SU2Symmetry
    /\ call.a = PyInt(2) /\ call.b = PyInt(2)
    /\ res = PyList(<<PyInt(0), PyInt(2), PyInt(4)>>)

C7_ProductIsCartesian ==
    LET fs == lists[call.self.factors]
        n == Len(fs)
    IN  /\ (Returned("fusion_outcomes") /\ call.self.cls = "ProductSymmetry")
               => LET o == [k \in 1..n |-> fusion_outcomes(fs[k], call.a.l[k], call.b.l[k])]
                  IN  /\ \A k \in 1..n : o[k].t = "list"
                      /\ res.t = "list"
                      /\ Elems(res.l) =
                             {PyList(c) : c \in {d \in [1..n -> UNION {Elems(o[k].l) : k \in 1..n}] :
                                                    \A k \in 1..n : d[k] \in Elems(o[k].l)}}
                      /\ \A i, j \in 1..Len(res.l) : res.l[i] = res.l[j] => i = j
                      /\ \A j \in 1..Len(res.l) :
                             is_valid_sector(call.self, res.l[j]) = PyBool(TRUE)
        /\ (Returned("dual_sector") /\ call.self.cls = "ProductSymmetry")
               => res = PyList([k \in 1..n |-> dual_sector(fs[k], call.a.l[k])])
        /\ (Returned("sector_dim") /\ call.self.cls = "ProductSymmetry")
               => res = PyInt(prod([k \in 1..n |-> sector_dim(fs[k], call.a.l[k]).i]))

\* the order of the styles as the claim ranks them
FusionRank == [single |-> 1, multiple_unique |-> 2, general |-> 3]
BraidingRank == [bosonic |-> 1, fermionic |-> 2, anyonic |-> 3, no_braiding |-> 4]

\* C8: for a ProductSymmetry built from a non-empty list of factors, fusion_style
\* is the factor style of greatest rank (single < multiple_unique < general),
\* braiding_style is the factor style of greatest rank (bosonic < fermionic <
\* anyonic < no_braiding), and trivial_sector is the list of the factors'
\* trivial sectors in factor order.
C8_ProductStyles ==
    \A p \in Elems(syms) :
        LET fs == lists[p.factors]
        IN  /\ \E k \in 1..Len(fs) : fs[k].fusion_style = p.fusion_style
            /\ \A k \in 1..Len(fs) :
                   FusionRank[fs[k].fusion_style] <= FusionRank[p.fusion_style]
            /\ \E k \in 1..Len(fs) : fs[k].braiding_style = p.braiding_style
            /\ \A k \in 1..Len(fs) :
                   BraidingRank[fs[k].braiding_style] <= BraidingRank[p.braiding_style]
            /\ p.trivial_sector = PyList([k \in 1..Len(fs) |-> fs[k].trivial_sector])

\* SU(2) x FermionParity: the fusion style comes from the first factor, the
\* braiding style from the second, and the trivial sector is [0, 0]
C8_Witness ==
    /\ Returned("ProductSymmetry")
    /\ IsProductSymmetry(res)
    /\ lists[res.factors] = <<SU2Symmetry, FermionParity>>
    /\ res.fusion_style = "multiple_unique"
    /\ res.braiding_style = "fermionic"
    /\ res.trivial_sector = PyList(<<PyInt(0), PyInt(0)>>)

\* C9: after any sequence of `*` combinations the result is a ProductSymmetry
\* whose factor list holds no ProductSymmetry (flat), (A * B) * C and
\* A * (B * C) have the same factor list in the same order, and the factor lists
\* of the operands are unchanged by the combination.
C9_MulFlatAssociativePure ==
    /\ (Returned("__mul__") /\ IsSymmetry(call.a)) => IsProductSymmetry(res)
    /\ \A p \in Elems(syms) : \A f \in Elems(lists[p.factors]) : ~IsProductSymmetry(f)
    \* Return leaves the heap and the log as they are: the state a call returned
    \* in shows all there is to see
    /\ pc = "returned" =>
           \A ab \in Elems(mul_log) : \A abc \in Elems(mul_log) :
               abc.self = ab.res =>
                   \A bc \in Elems(mul_log) :
                       (bc.self = ab.other /\ bc.other = abc.other) =>
                           \A a_bc \in Elems(mul_log) :
                               (a_bc.self = ab.self /\ a_bc.other = bc.res) =>
                                   lists[abc.res.factors] = lists[a_bc.res.factors]
    /\ \A e \in Elems(mul_log) :
           /\ IsProductSymmetry(e.self) => lists[e.self.factors] = e.self_factors
           /\ IsProductSymmetry(e.other) => lists[e.other.factors] = e.other_factors

\* (SU(2) * FermionParity) * SU(2) and SU(2) * (FermionParity * SU(2)) have both
\* been built, each with the three factors in order
C9_Witness ==
    \E ab, abc, bc, a_bc \in Elems(mul_log) :
        /\ ab.self = SU2Symmetry /\ ab.other = FermionParity
        /\ abc.self = ab.res /\ abc.other = SU2Symmetry
        /\ bc.self = FermionParity /\ bc.other = SU2Symmetry
        /\ a_bc.self = SU2Symmetry /\ a_bc.other = bc.res
        /\ lists[abc.res.factors] = <<SU2Symmetry, FermionParity, SU2Symmetry>>
        /\ lists[a_bc.res.factors] = <<SU2Symmetry, FermionParity, SU2Symmetry>>
        /\ lists[ab.res.factors] = <<SU2Symmetry, FermionParity>>

\* C10: is_valid_sector is a total predicate for every symmetry: for any input
\* value, values of an unrelated type included, it returns True or False and
\* never raises.
C10_IsValidSectorTotal ==
    Returned("is_valid_sector") => res.t = "bool"

(***************************************************************************)
(* Tensor decompositions (tenpy/linalg/matrix_operations.py).              *)
(*                                                                         *)
(* Bounds of this part of the model.                                       *)
(***************************************************************************)
MaxLegs == 4        \* tensors have 1..MaxLegs legs
MaxGroup == 2       \* longest explicit leg group handed to a call
MaxNewLabels == 5   \* longest new_labels sequence handed to svd

(***************************************************************************)
(* Tensors and leg spaces.  A VectorSpace is the space it stands for and   *)
(* its is_dual flag; a Tensor holds data, a backend, one leg per axis and  *)
(* one label (a str or None) per axis.                                     *)
(***************************************************************************)
VectorSpace(space, is_dual) == [space |-> space, is_dual |-> is_dual]

\* leg.dual
dual(leg) == VectorSpace(leg.space, ~leg.is_dual)

\* leg.is_dual_of(other)
is_dual_of(leg, other) == leg.space = other.space /\ leg.is_dual # other.is_dual

Tensor(data, backend, legs, labels) ==
    [t |-> "Tensor", data |-> data, backend |-> backend, legs |-> legs, labels |-> labels]

DiagonalTensor(data, backend, legs, labels) ==
    [t |-> "DiagonalTensor", data |-> data, backend |-> backend, legs |-> legs,
     labels |-> labels]

\* the backends a tensor can have: the torch backend without symmetry, and a
\* backend with the methods the decompositions call
NoSymmetryTorchBackend == [t |-> "NoSymmetryTorchBackend"]

AbstractBackend == [t |-> "AbstractBackend"]

Backends == {NoSymmetryTorchBackend, AbstractBackend}

\* isinstance(a, Tensor), isinstance(a, AbstractTensor)
IsTensor(a) == a.t = "Tensor"
IsAbstractTensor(a) == a.t \in {"Tensor", "DiagonalTensor"}

\* a.num_legs
num_legs(a) == Len(a.legs)

\* a (Python) tuple of values
PyTuple(items) == [t |-> "tuple", items |-> items]

\* n in idcs, for a list of ints
In(n, idcs) == \E k \in 1..Len(idcs) : idcs[k] = n

\* a.get_leg_idx(which_leg): an int is the index itself, a str is the index of
\* the leg that carries this label
get_leg_idx(a, which_leg) ==
    IF which_leg.t = "int" THEN which_leg.i
    ELSE CHOOSE n \in 0..(num_legs(a) - 1) : a.labels[n + 1] = which_leg

\* a.get_leg_idcs(which_legs): the entries resolved one by one, in order
get_leg_idcs(a, which_legs) ==
    [k \in 1..Len(which_legs.l) |-> get_leg_idx(a, which_legs.l[k])]

(***************************************************************************)
(* leg_bipartition(a, legs1, legs2): a pair of index lists or a ValueError *)
(***************************************************************************)
\* the variant that does not look for legs left out of both groups
leg_bipartition_no_missing(a, legs1, legs2) ==
    IF legs1 = NoneV /\ legs2 = NoneV THEN
        IF num_legs(a) # 2 THEN Raise("ValueError")
        ELSE PyTuple(<< <<0>>, <<1>> >>)
    ELSE IF legs1 = NoneV THEN
        LET idcs2 == get_leg_idcs(a, legs2)
            idcs1 == SelectSeq(range(0, num_legs(a), 1), LAMBDA n : ~In(n, idcs2))
        IN  PyTuple(<<idcs1, idcs2>>)
    ELSE IF legs2 = NoneV THEN
        LET idcs1 == get_leg_idcs(a, legs1)
            idcs2 == SelectSeq(range(0, num_legs(a), 1), LAMBDA n : ~In(n, idcs1))
        IN  PyTuple(<<idcs1, idcs2>>)
    ELSE
        LET idcs1 == get_leg_idcs(a, legs1)
            idcs2 == get_leg_idcs(a, legs2)
            in_both_lists == SelectSeq(idcs1, LAMBDA l : In(l, idcs2))
        IN  IF in_both_lists # <<>> THEN Raise("ValueError")
            ELSE PyTuple(<<idcs1, idcs2>>)

leg_bipartition(a, legs1, legs2) ==
    IF legs1 = NoneV /\ legs2 = NoneV THEN
        IF num_legs(a) # 2 THEN Raise("ValueError")
        ELSE PyTuple(<< <<0>>, <<1>> >>)
    ELSE IF legs1 = NoneV THEN
        LET idcs2 == get_leg_idcs(a, legs2)
            idcs1 == SelectSeq(range(0, num_legs(a), 1), LAMBDA n : ~In(n, idcs2))
        IN  PyTuple(<<idcs1, idcs2>>)
    ELSE IF legs2 = NoneV THEN
        LET idcs1 == get_leg_idcs(a, legs1)
            idcs2 == SelectSeq(range(0, num_legs(a), 1), LAMBDA n : ~In(n, idcs1))
        IN  PyTuple(<<idcs1, idcs2>>)
    ELSE
        LET idcs1 == get_leg_idcs(a, legs1)
            idcs2 == get_leg_idcs(a, legs2)
            in_both_lists == SelectSeq(idcs1, LAMBDA l : In(l, idcs2))
            missing == SelectSeq(range(0, num_legs(a), 1),
                                 LAMBDA n : ~In(n, idcs1) /\ ~In(n, idcs2))
        IN  IF in_both_lists # <<>> THEN Raise("ValueError")
            ELSE IF missing # <<>> THEN Raise("ValueError")
            ELSE PyTuple(<<idcs1, idcs2>>)

(***************************************************************************)
(* svd(a, u_legs, vh_legs, new_labels, new_vh_leg_dual)                    *)
(***************************************************************************)
\* the variant that hands the first new label to both legs of S
svd_new_labels_first_to_S(new_labels) ==
    IF new_labels = NoneV THEN PyTuple(<<NoneV, NoneV, NoneV, NoneV>>)
    ELSE IF new_labels.t # "tuple" THEN Raise("TypeError")
    ELSE LET num_labels == Len(new_labels.items)
         IN  IF num_labels = 2
             THEN PyTuple(<<new_labels.items[1], new_labels.items[1],
                            new_labels.items[1], new_labels.items[2]>>)
             ELSE IF num_labels = 4 THEN PyTuple(new_labels.items)
             ELSE Raise("ValueError")

\* _svd_new_labels(new_labels): the tuple (l_u, l_su, l_sv, l_vh).  len() of a
\* value without a length raises TypeError, which `except AttributeError` lets
\* through.
svd_new_labels(new_labels) ==
    IF new_labels = NoneV THEN PyTuple(<<NoneV, NoneV, NoneV, NoneV>>)
    ELSE IF new_labels.t # "tuple" THEN Raise("TypeError")
    ELSE LET num_labels == Len(new_labels.items)
         IN  IF num_labels = 2
             THEN PyTuple(<<new_labels.items[1], new_labels.items[2],
                            new_labels.items[1], new_labels.items[2]>>)
             ELSE IF num_labels = 4 THEN PyTuple(new_labels.items)
             ELSE Raise("ValueError")

\* a.transpose(permutation): the legs, and their labels with them, in the order
\* given by the permutation
transpose(a, permutation) ==
    Tensor(a.data, a.backend,
           [k \in 1..Len(permutation) |-> a.legs[permutation[k] + 1]],
           [k \in 1..Len(permutation) |-> a.labels[permutation[k] + 1]])

\* NoSymmetryTorchBackend.svd(self, a, axs1, axs2, new_leg) called as
\* backend.svd(a, new_vh_leg_dual): two required arguments are missing
NoSymmetryTorchBackend_svd(a, new_vh_leg_dual) == Raise("TypeError")

\* a backend whose svd takes (a, new_vh_leg_dual): the three blocks and the new
\* leg, which is the bond leg of Vh and is dual as asked
AbstractBackend_svd(a, new_vh_leg_dual) ==
    PyTuple(<<"u_data", "s_data", "vh_data", VectorSpace(0, new_vh_leg_dual)>>)

\* a.backend.svd(a, new_vh_leg_dual)
backend_svd(a, new_vh_leg_dual) ==
    IF a.backend = NoSymmetryTorchBackend THEN NoSymmetryTorchBackend_svd(a, new_vh_leg_dual)
    ELSE AbstractBackend_svd(a, new_vh_leg_dual)

\* [a.labels[n] for n in idcs]
LabelsAt(a, idcs) == [k \in 1..Len(idcs) |-> a.labels[idcs[k] + 1]]

\* svd: what it returns or raises (ret) and the backend primitives it has
\* called (log).  With need_combine the name v_idcs, which nothing defines, is
\* read before combine_legs is called, so the call ends in a NameError and the
\* split_leg calls at the end are never reached.  After transpose, a is the
\* transposed tensor in all that follows.
svd(a, u_legs, vh_legs, new_labels, new_vh_leg_dual) ==
    IF ~IsTensor(a) THEN [ret |-> Raise("NotImplementedError"), log |-> <<>>]
    ELSE LET bipartition == leg_bipartition(a, u_legs, vh_legs)
         IN  IF IsRaise(bipartition) THEN [ret |-> bipartition, log |-> <<>>]
             ELSE
    LET u_idcs == bipartition.items[1]
        vh_idcs == bipartition.items[2]
        labels == svd_new_labels(new_labels)
    IN  IF IsRaise(labels) THEN [ret |-> labels, log |-> <<>>]
        ELSE
    LET l_u == labels.items[1]
        l_su == labels.items[2]
        l_sv == labels.items[3]
        l_vh == labels.items[4]
        need_combine == Len(u_idcs) # 1 \/ Len(vh_idcs) # 1
    IN  IF need_combine THEN [ret |-> Raise("NameError"), log |-> <<>>]
        ELSE
    LET a2 == IF u_idcs[1] = 1 THEN transpose(a, <<1, 0>>) ELSE a
        answer == backend_svd(a2, new_vh_leg_dual)
    IN  IF IsRaise(answer) THEN [ret |-> answer, log |-> <<"svd">>]
        ELSE
    LET u_data == answer.items[1]
        s_data == answer.items[2]
        vh_data == answer.items[3]
        new_leg == answer.items[4]
        U == Tensor(u_data, a2.backend, <<a2.legs[1], dual(new_leg)>>,
                    LabelsAt(a2, u_idcs) \o <<l_u>>)
        S == DiagonalTensor(s_data, a2.backend, <<new_leg, dual(new_leg)>>, <<l_su, l_sv>>)
        Vh == Tensor(vh_data, a2.backend, <<new_leg, a2.legs[2]>>,
                     <<l_vh>> \o LabelsAt(a2, vh_idcs))
    IN  [ret |-> PyTuple(<<U, S, Vh>>), log |-> <<"svd">>]

(***************************************************************************)
(* truncate_svd(U, S, Vh, options)                                         *)
(***************************************************************************)
\* get_same_backend(U, S, Vh): the backend the tensors share, ValueError if
\* they do not share one
get_same_backend(U, S, Vh) ==
    IF U.backend = S.backend /\ S.backend = Vh.backend THEN U.backend
    ELSE Raise("ValueError")

\* backend.truncate_svd(U, S, Vh, options): the torch backend has no such
\* method (it is yet to be implemented); another backend answers with
\* (u_data, s_data, vh_data, new_leg, trunc_err)
backend_truncate_svd(backend, U, S, Vh, answer) ==
    IF backend = NoSymmetryTorchBackend THEN Raise("AttributeError") ELSE answer

\* the variant that gives both legs of S the new leg itself
truncate_svd_S_not_dual(U, S, Vh, answer) ==
    IF ~IsTensor(U) \/ ~IsTensor(Vh)
    THEN [ret |-> Raise("NotImplementedError"), log |-> <<>>]
    ELSE LET backend == get_same_backend(U, S, Vh)
         IN  IF IsRaise(backend) THEN [ret |-> backend, log |-> <<>>]
             ELSE
    LET returned == backend_truncate_svd(backend, U, S, Vh, answer)
    IN  IF IsRaise(returned) THEN [ret |-> returned, log |-> <<"truncate_svd">>]
        ELSE
    LET u_data == returned.items[1]
        s_data == returned.items[2]
        vh_data == returned.items[3]
        new_leg == returned.items[4]
        trunc_err == returned.items[5]
        U2 == Tensor(u_data, backend, SubSeq(U.legs, 1, Len(U.legs) - 1) \o <<new_leg>>,
                     U.labels)
        S2 == DiagonalTensor(s_data, backend, <<new_leg, new_leg>>, S.labels)
        Vh2 == Tensor(vh_data, backend, <<dual(new_leg)>> \o Tail(Vh.legs), Vh.labels)
    IN  [ret |-> PyTuple(<<U2, S2, Vh2, trunc_err>>), log |-> <<"truncate_svd">>]

\* truncate_svd, where answer is what backend.truncate_svd(U, S, Vh, options)
\* returns: (u_data, s_data, vh_data, new_leg, trunc_err)
truncate_svd(U, S, Vh, answer) ==
    IF ~IsTensor(U) \/ ~IsTensor(Vh)
    THEN [ret |-> Raise("NotImplementedError"), log |-> <<>>]
    ELSE LET backend == get_same_backend(U, S, Vh)
         IN  IF IsRaise(backend) THEN [ret |-> backend, log |-> <<>>]
             ELSE
    LET returned == backend_truncate_svd(backend, U, S, Vh, answer)
    IN  IF IsRaise(returned) THEN [ret |-> returned, log |-> <<"truncate_svd">>]
        ELSE
    LET u_data == returned.items[1]
        s_data == returned.items[2]
        vh_data == returned.items[3]
        new_leg == returned.items[4]
        trunc_err == returned.items[5]
        U2 == Tensor(u_data, backend, SubSeq(U.legs, 1, Len(U.legs) - 1) \o <<new_leg>>,
                     U.labels)
        S2 == DiagonalTensor(s_data, backend, <<dual(new_leg), new_leg>>, S.labels)
        Vh2 == Tensor(vh_data, backend, <<dual(new_leg)>> \o Tail(Vh.legs), Vh.labels)
    IN  [ret |-> PyTuple(<<U2, S2, Vh2, trunc_err>>), log |-> <<"truncate_svd">>]

(***************************************************************************)
(* exp(t, legs1, legs2) and log(t, legs1, legs2)                           *)
(***************************************************************************)
PyFloat(x) == [t |-> "float", f |-> x]

\* math.exp(x) and math.log(x) of an int: a float, written as the function
\* applied; math.log raises ValueError outside its domain
math_exp(x) == PyFloat(<<"exp", x.i>>)

math_log(x) == IF x.i <= 0 THEN Raise("ValueError") ELSE PyFloat(<<"log", x.i>>)

\* leg_bipartition(legs1, legs2): the tensor is not handed over, so the two
\* groups are taken for a and legs1 and the parameter legs2 has no value
leg_bipartition_of_two(legs1, legs2) == Raise("TypeError")

\* all(t.legs[i1].is_dual_of(t.legs[i2]) for i1, i2 in zip(idcs1, idcs2))
AllDual(t, idcs1, idcs2) ==
    LET pairs == Zip(idcs1, idcs2)
    IN  \A k \in 1..Len(pairs) : is_dual_of(t.legs[pairs[k][1] + 1], t.legs[pairs[k][2] + 1])

\* t.backend.exp(t, idcs1, idcs2), t.backend.log(t, idcs1, idcs2): the torch
\* block backend declines matrix_exp and matrix_log
backend_matrix_function(name, t, idcs1, idcs2) ==
    IF t.backend = NoSymmetryTorchBackend THEN Raise("NotImplementedError")
    ELSE <<name, t.data>>

\* the part that exp and log share; name is "exp" or "log"
matrix_function(name, t, legs1, legs2) ==
    IF ~IsAbstractTensor(t)
    THEN [ret |-> IF name = "exp" THEN math_exp(t) ELSE math_log(t), log |-> <<>>]
    ELSE IF ~IsTensor(t) THEN [ret |-> Raise("NotImplementedError"), log |-> <<>>]
    ELSE LET bipartition == leg_bipartition_of_two(legs1, legs2)
         IN  IF IsRaise(bipartition) THEN [ret |-> bipartition, log |-> <<>>]
             ELSE
    LET idcs1 == bipartition.items[1]
        idcs2 == bipartition.items[2]
    IN  IF Len(idcs1) # Len(idcs2) THEN [ret |-> Raise("AssertionError"), log |-> <<>>]
        ELSE IF ~AllDual(t, idcs1, idcs2)
        THEN [ret |-> Raise("AssertionError"), log |-> <<>>]
        ELSE
    LET res_data == backend_matrix_function(name, t, idcs1, idcs2)
    IN  IF IsRaise(res_data) THEN [ret |-> res_data, log |-> <<name>>]
        ELSE [ret |-> Tensor(res_data, t.backend, t.legs, t.labels), log |-> <<name>>]

exp(t, legs1, legs2) == matrix_function("exp", t, legs1, legs2)

log(t, legs1, legs2) == matrix_function("log", t, legs1, legs2)

(***************************************************************************)
(* The values the calls are made with.                                     *)
(***************************************************************************)
\* the labels of the legs of a labelled tensor, by position
LegLabels == <<"a", "b", "c", "d", "e">>

\* n legs over different spaces, each labelled or none labelled
PlainTensor(n, labelled, backend) ==
    Tensor("data", backend,
           [k \in 1..n |-> VectorSpace(k, FALSE)],
           [k \in 1..n |-> IF labelled THEN PyStr(<<LegLabels[k]>>) ELSE NoneV])

\* the lists of at most MaxGroup leg indices of a, repeated entries included,
\* with the entries spelled as ints or (on a labelled tensor) as labels
IdxLists(a) == SeqsUpTo(0..(num_legs(a) - 1), MaxGroup)

AsInts(idcs) == PyList([k \in 1..Len(idcs) |-> PyInt(idcs[k])])

AsLabels(a, idcs) == PyList([k \in 1..Len(idcs) |-> a.labels[idcs[k] + 1]])

LegLists(a) ==
    {NoneV} \cup {AsInts(idcs) : idcs \in IdxLists(a)}
            \cup (IF \A k \in 1..num_legs(a) : a.labels[k] # NoneV
                  THEN {AsLabels(a, idcs) : idcs \in IdxLists(a)} ELSE {})

\* the lists of at most MaxGroup different leg indices of a, as ints
SomeLegs(a) ==
    {NoneV} \cup {AsInts(idcs) : idcs \in
                    {l \in IdxLists(a) : \A j, k \in 1..Len(l) : j # k => l[j] # l[k]}}

\* the tensors the decompositions are called with, and a value of another class
Tensors ==
    {PlainTensor(n, labelled, backend) :
        n \in 1..MaxLegs, labelled \in BOOLEAN, backend \in Backends}

NonTensors ==
    {DiagonalTensor("data", AbstractBackend,
                    <<VectorSpace(1, FALSE), VectorSpace(1, TRUE)>>, <<NoneV, NoneV>>)}

\* new_labels: None, a tuple of 0..MaxNewLabels strs, or a value without a length
NewLabelNames == <<"p", "q", "r", "s", "t", "u", "v">>

NewLabels ==
    {NoneV, PyInt(MaxNewLabels)}
        \cup {PyTuple([k \in 1..n |-> PyStr(<<NewLabelNames[k]>>)]) : n \in 0..MaxNewLabels}

\* a two-leg tensor from a space to itself: its second leg is the dual of its
\* first
DualPairTensor(labelled, backend) ==
    Tensor("data", backend, <<VectorSpace(1, FALSE), VectorSpace(1, TRUE)>>,
           [k \in 1..2 |-> IF labelled THEN PyStr(<<LegLabels[k]>>) ELSE NoneV])

DualPairTensors ==
    {DualPairTensor(labelled, backend) : labelled \in BOOLEAN, backend \in Backends}

\* a triple as svd is to return it for a tensor of k + m <= MaxLegs legs, k of
\* them on U:
\* U has k legs and the bond leg, Vh the bond leg and m legs
Triple(k, m, labelled, backend_U, backend_Vh) ==
    LET bond == VectorSpace(0, FALSE)
        label(n) == IF labelled THEN PyStr(<<LegLabels[n]>>) ELSE NoneV
        new_label(n) == IF labelled THEN PyStr(<<NewLabelNames[n]>>) ELSE NoneV
    IN  <<Tensor("data", backend_U,
                 [n \in 1..k |-> VectorSpace(n, FALSE)] \o <<dual(bond)>>,
                 [n \in 1..k |-> label(n)] \o <<new_label(1)>>),
          DiagonalTensor("data", backend_Vh, <<bond, dual(bond)>>,
                         <<new_label(2), new_label(3)>>),
          Tensor("data", backend_Vh,
                 <<bond>> \o [n \in 1..m |-> VectorSpace(k + n, FALSE)],
                 <<new_label(4)>> \o [n \in 1..m |-> label(k + n)])>>

Triples ==
    UNION {{Triple(k, m, labelled, backend_U, backend_Vh) :
                m \in 1..(MaxLegs - k), labelled \in BOOLEAN,
                backend_U \in Backends, backend_Vh \in Backends} :
           k \in 1..(MaxLegs - 1)}

\* what a backend answers to truncate_svd: the blocks, the reduced bond leg and
\* the truncation error
TruncationAnswers ==
    {PyTuple(<<"u_data_trunc", "s_data_trunc", "vh_data_trunc",
               VectorSpace(-1, is_dual), PyFloat(trunc_err)>>) :
        is_dual \in BOOLEAN, trunc_err \in 0..1}

(***************************************************************************)
(* The calls of this part.                                                 *)
(***************************************************************************)
LegBipartition(a, legs1, legs2) ==
    /\ pc = "idle"
    /\ res' = leg_bipartition(a, legs1, legs2)
    /\ call' = [op |-> "leg_bipartition", a |-> a, legs1 |-> legs1, legs2 |-> legs2]
    /\ pc' = "returned"
    /\ UNCHANGED <<lists, syms, mul_log, backend_log>>

Svd(a, u_legs, vh_legs, new_labels, new_vh_leg_dual) ==
    /\ pc = "idle"
    /\ LET r == svd(a, u_legs, vh_legs, new_labels, new_vh_leg_dual)
       IN  /\ res' = r.ret
           /\ backend_log' = r.log
    /\ call' = [op |-> "svd", a |-> a, legs1 |-> u_legs, legs2 |-> vh_legs,
                new_labels |-> new_labels, new_vh_leg_dual |-> new_vh_leg_dual]
    /\ pc' = "returned"
    /\ UNCHANGED <<lists, syms, mul_log>>

Exp(t, legs1, legs2) ==
    /\ pc = "idle"
    /\ LET r == exp(t, legs1, legs2)
       IN  /\ res' = r.ret
           /\ backend_log' = r.log
    /\ call' = [op |-> "exp", a |-> t, legs1 |-> legs1, legs2 |-> legs2]
    /\ pc' = "returned"
    /\ UNCHANGED <<lists, syms, mul_log>>

Log(t, legs1, legs2) ==
    /\ pc = "idle"
    /\ LET r == log(t, legs1, legs2)
       IN  /\ res' = r.ret
           /\ backend_log' = r.log
    /\ call' = [op |-> "log", a |-> t, legs1 |-> legs1, legs2 |-> legs2]
    /\ pc' = "returned"
    /\ UNCHANGED <<lists, syms, mul_log>>

TruncateSvd(U, S, Vh, answer) ==
    /\ LET r == truncate_svd(U, S, Vh, answer)
       IN  /\ res' = r.ret
           /\ backend_log' = r.log
    /\ call' = [op |-> "truncate_svd", U |-> U, S |-> S, Vh |-> Vh, answer |-> answer]
    /\ pc' = "returned"
    /\ UNCHANGED <<lists, syms, mul_log>>

NextLA ==
    \/ pc = "idle" /\ \E n \in 1..MaxLegs : \E labelled \in BOOLEAN :
           LET a == PlainTensor(n, labelled, AbstractBackend)
           IN  \E legs1, legs2 \in LegLists(a) : LegBipartition(a, legs1, legs2)
    \/ pc = "idle" /\ \E a \in Tensors \cup NonTensors :
           \E u_legs, vh_legs \in SomeLegs(a) :
               \E new_labels \in NewLabels : \E new_vh_leg_dual \in BOOLEAN :
                   Svd(a, u_legs, vh_legs, new_labels, new_vh_leg_dual)
    \/ pc = "idle" /\ \E t \in Tensors \cup DualPairTensors \cup NonTensors :
           \E legs1, legs2 \in SomeLegs(t) : Exp(t, legs1, legs2)
    \/ pc = "idle" /\ \E t \in PyInts : Exp(t, NoneV, NoneV)
    \/ pc = "idle" /\ \E t \in Tensors \cup DualPairTensors \cup NonTensors :
           \E legs1, legs2 \in SomeLegs(t) : Log(t, legs1, legs2)
    \/ pc = "idle" /\ \E t \in PyInts : Log(t, NoneV, NoneV)
    \/ pc = "returned" /\ call.op = "svd" /\ ~IsRaise(res)
       /\ \E answer \in TruncationAnswers :
              TruncateSvd(res.items[1], res.items[2], res.items[3], answer)
    \/ pc = "idle" /\ \E usv \in Triples : \E answer \in TruncationAnswers :
           TruncateSvd(usv[1], usv[2], usv[3], answer)
    \/ pc = "idle" /\ \E U \in NonTensors : \E usv \in Triples :
           \E answer \in TruncationAnswers : TruncateSvd(U, usv[2], usv[3], answer)
    \/ Return

SpecLA == Init /\ [][NextLA]_vars

(***************************************************************************)
(* Properties of the tensor decompositions.                                *)
(***************************************************************************)
\* how often n occurs in a list
Count(n, idcs) == Cardinality({k \in 1..Len(idcs) : idcs[k] = n})

\* C11: whenever leg_bipartition(a, legs1, legs2) returns, for legs1 and legs2
\* each None or a list of legs, repeated entries allowed, the two index lists
\* are disjoint and every leg index 0..n-1 occurs exactly once in idcs1 + idcs2.
C11_BipartitionExactlyOnce ==
    (Returned("leg_bipartition") /\ ~IsRaise(res)) =>
        LET idcs1 == res.items[1]
            idcs2 == res.items[2]
        IN  /\ \A k \in 1..Len(idcs1) : ~In(idcs1[k], idcs2)
            /\ \A n \in 0..(num_legs(call.a) - 1) : Count(n, idcs1 \o idcs2) = 1

\* a list is strictly ascending
Ascending(idcs) == \A k \in 1..(Len(idcs) - 1) : idcs[k] < idcs[k + 1]

\* the ascending list of the leg indices of a that are not in idcs
IsComplement(a, omitted, idcs) ==
    /\ Ascending(omitted)
    /\ Elems(omitted) = (0..(num_legs(a) - 1)) \ Elems(idcs)

\* C12: with both groups None, leg_bipartition returns ([0], [1]) on a tensor
\* of exactly two legs and raises ValueError otherwise; with exactly one group
\* None, the omitted group is the ascending list of the leg indices that are
\* not in the explicit group; with both groups explicit, it raises ValueError
\* if an index is in both groups, and if a leg is in neither.
C12_BipartitionCases ==
    Returned("leg_bipartition") =>
        LET a == call.a
            legs1 == call.legs1
            legs2 == call.legs2
        IN  /\ (legs1 = NoneV /\ legs2 = NoneV) =>
                   IF num_legs(a) = 2 THEN res = PyTuple(<< <<0>>, <<1>> >>)
                   ELSE res = Raise("ValueError")
            /\ (legs1 = NoneV /\ legs2 # NoneV) =>
                   /\ ~IsRaise(res)
                   /\ res.items[2] = get_leg_idcs(a, legs2)
                   /\ IsComplement(a, res.items[1], res.items[2])
            /\ (legs1 # NoneV /\ legs2 = NoneV) =>
                   /\ ~IsRaise(res)
                   /\ res.items[1] = get_leg_idcs(a, legs1)
                   /\ IsComplement(a, res.items[2], res.items[1])
            /\ (legs1 # NoneV /\ legs2 # NoneV) =>
                   LET idcs1 == get_leg_idcs(a, legs1)
                       idcs2 == get_leg_idcs(a, legs2)
                   IN  /\ (Elems(idcs1) \cap Elems(idcs2) # {}) =>
                               res = Raise("ValueError")
                       /\ ((0..(num_legs(a) - 1)) \ (Elems(idcs1) \cup Elems(idcs2)) # {}) =>
                               res = Raise("ValueError")

\* legs1 == [1] on a tensor of four legs has given ([1], [0, 2, 3])
C12_Witness ==
    /\ Returned("leg_bipartition")
    /\ num_legs(call.a) = 4
    /\ call.legs1 = AsInts(<<1>>) /\ call.legs2 = NoneV
    /\ res = PyTuple(<< <<1>>, <<0, 2, 3>> >>)

\* two explicit groups that leave a leg out have been answered with ValueError
C12_WitnessMissing ==
    /\ Returned("leg_bipartition")
    /\ num_legs(call.a) = 3
    /\ call.legs1 = AsInts(<<0>>) /\ call.legs2 = AsInts(<<1>>)
    /\ res = Raise("ValueError")

\* the labels of the four bond legs of a result (U, S, Vh) of svd:
\* U's last, S's first, S's second, Vh's first
BondLabels(usv) ==
    LET U == usv.items[1]
        S == usv.items[2]
        Vh == usv.items[3]
    IN  <<U.labels[Len(U.labels)], S.labels[1], S.labels[2], Vh.labels[1]>>

\* C13: svd with new_labels None gives four unlabelled bond legs; a 2-sequence
\* (x, y) labels U's bond leg and the second leg of S with x, and Vh's bond leg
\* and the first leg of S with y; a 4-sequence labels U, first of S, second of
\* S, Vh in that order; a sequence of any other length raises ValueError; and
\* the backend is not called before the labels have passed the check.
C13_SvdNewLabels ==
    (Returned("svd") /\ IsTensor(call.a)) =>
        LET new_labels == call.new_labels
            isseq == new_labels.t = "tuple"
        IN  /\ (isseq /\ Len(new_labels.items) \notin {2, 4}) =>
                   (res = Raise("ValueError") /\ backend_log = <<>>)
            /\ backend_log # <<>> =>
                   (new_labels = NoneV \/ (isseq /\ Len(new_labels.items) \in {2, 4}))
            /\ ~IsRaise(res) =>
                   /\ new_labels = NoneV =>
                          BondLabels(res) = <<NoneV, NoneV, NoneV, NoneV>>
                   /\ (isseq /\ Len(new_labels.items) = 2) =>
                          LET x == new_labels.items[1]
                              y == new_labels.items[2]
                          IN  BondLabels(res) = <<x, y, x, y>>
                   /\ (isseq /\ Len(new_labels.items) = 4) =>
                          BondLabels(res) = new_labels.items

\* svd has returned U, S, Vh for new_labels == ('p', 'q')
C13_Witness ==
    /\ Returned("svd")
    /\ ~IsRaise(res)
    /\ call.new_labels = PyTuple(<<PyStr(<<"p">>), PyStr(<<"q">>)>>)
    /\ backend_log = <<"svd">>

\* svd has turned down new_labels of length 3 on a two-leg tensor
C13_WitnessRaise ==
    /\ Returned("svd")
    /\ num_legs(call.a) = 2
    /\ call.legs1 = NoneV /\ call.legs2 = NoneV
    /\ call.new_labels.t = "tuple" /\ Len(call.new_labels.items) = 3
    /\ res = Raise("ValueError")

\* the precondition of exp and log: the groups that legs1 and legs2 stand for
\* on t have equal length and their legs are mutually dual pair by pair
MutuallyDualGroups(t, legs1, legs2) ==
    LET bipartition == leg_bipartition(t, legs1, legs2)
    IN  /\ ~IsRaise(bipartition)
        /\ Len(bipartition.items[1]) = Len(bipartition.items[2])
        /\ AllDual(t, bipartition.items[1], bipartition.items[2])

\* C14: for exp and log of a Tensor, the backend's matrix function is called if
\* and only if the resolved leg groups have equal length and are mutually dual
\* pair by pair; if they are not, the call fails before any backend call, and
\* if they are, the call returns a new Tensor with the legs and labels of the
\* input.
C14_ExpLogPrecondition ==
    ((Returned("exp") \/ Returned("log")) /\ IsTensor(call.a)) =>
        LET pre == MutuallyDualGroups(call.a, call.legs1, call.legs2)
        IN  /\ (backend_log # <<>>) <=> pre
            /\ ~pre => (IsRaise(res) /\ backend_log = <<>>)
            /\ pre => /\ ~IsRaise(res)
                      /\ IsTensor(res)
                      /\ res.legs = call.a.legs
                      /\ res.labels = call.a.labels

\* [a.legs[n] for n in idcs]
LegsAt(a, idcs) == [k \in 1..Len(idcs) |-> a.legs[idcs[k] + 1]]

\* C15: for svd of a Tensor with a valid leg bipartition (u_legs, vh_legs) and
\* valid new_labels, sides of more than one leg and the two-leg case
\* u_legs=[1], vh_legs=[0] included, the call completes, U's legs are the
\* tensor's u_legs in order followed by one bond leg, Vh's legs are one bond leg
\* followed by the tensor's vh_legs in order, and each carried-over leg keeps
\* the label it has on the tensor.
C15_SvdLegsAndLabels ==
    (/\ Returned("svd")
     /\ IsTensor(call.a)
     /\ ~IsRaise(leg_bipartition(call.a, call.legs1, call.legs2))
     /\ ~IsRaise(svd_new_labels(call.new_labels))) =>
        LET a == call.a
            bipartition == leg_bipartition(a, call.legs1, call.legs2)
            u_idcs == bipartition.items[1]
            vh_idcs == bipartition.items[2]
        IN  /\ ~IsRaise(res)
            /\ LET U == res.items[1]
                   Vh == res.items[3]
               IN  /\ Len(U.legs) = Len(u_idcs) + 1
                   /\ SubSeq(U.legs, 1, Len(u_idcs)) = LegsAt(a, u_idcs)
                   /\ SubSeq(U.labels, 1, Len(u_idcs)) = LabelsAt(a, u_idcs)
                   /\ Len(Vh.legs) = Len(vh_idcs) + 1
                   /\ Tail(Vh.legs) = LegsAt(a, vh_idcs)
                   /\ Tail(Vh.labels) = LabelsAt(a, vh_idcs)

\* U's last leg and S's first leg are mutually dual, and so are S's second leg
\* and Vh's first leg
BondLegsDual(U, S, Vh) ==
    /\ is_dual_of(U.legs[Len(U.legs)], S.legs[1])
    /\ is_dual_of(S.legs[1], U.legs[Len(U.legs)])
    /\ is_dual_of(S.legs[2], Vh.legs[1])
    /\ is_dual_of(Vh.legs[1], S.legs[2])

\* C16: in the tensors that svd and truncate_svd return, U's last leg is the
\* dual of S's first leg and S's second leg is the dual of Vh's first leg;
\* truncate_svd changes only these bond legs: every other leg of U and Vh and
\* all labels of U, S and Vh are as in its inputs, and the truncation error is
\* the one the backend has returned.
C16_BondLegsDual ==
    /\ (Returned("svd") /\ ~IsRaise(res)) =>
           BondLegsDual(res.items[1], res.items[2], res.items[3])
    /\ (Returned("truncate_svd") /\ ~IsRaise(res)) =>
           LET U == res.items[1]
               S == res.items[2]
               Vh == res.items[3]
           IN  /\ BondLegsDual(U, S, Vh)
               /\ Len(U.legs) = Len(call.U.legs)
               /\ SubSeq(U.legs, 1, Len(U.legs) - 1)
                      = SubSeq(call.U.legs, 1, Len(call.U.legs) - 1)
               /\ Len(S.legs) = 2
               /\ Len(Vh.legs) = Len(call.Vh.legs)
               /\ Tail(Vh.legs) = Tail(call.Vh.legs)
               /\ U.labels = call.U.labels
               /\ S.labels = call.S.labels
               /\ Vh.labels = call.Vh.labels
               /\ res.items[4] = call.answer.items[5]

\* truncate_svd has returned for the U, S, Vh that svd has returned before
C16_Witness ==
    /\ Returned("truncate_svd")
    /\ ~IsRaise(res)
    /\ call.U.data = "u_data"
    /\ res.items[1].legs[2] # call.U.legs[2]

====
